---- MODULE Spec2Model ----
(***************************************************************************)
(* A model of the compile-time typelist library (namespace meta).          *)
(*                                                                         *)
(* A TypeList<Types...> is modelled as the sequence of its type arguments; *)
(* a type is modelled by its name.  Every operation of the library is a    *)
(* pure function of the list and of its template arguments, evaluated by   *)
(* the compiler.  An evaluation either yields a result (a list, a size_t,  *)
(* a bool or a type) or is rejected by the compiler (a static_assert that  *)
(* fails, or the use of a class template that has no definition).          *)
(*                                                                         *)
(* The state machine draws a list, evaluates one operation of the list     *)
(* with arguments drawn from small sets, and records the arguments and the *)
(* result; a using-declaration then names the result and the next          *)
(* operation is evaluated on it.  A list is also created from the          *)
(* arguments of a specialization T<Args...> (make_type_list_from_t), and   *)
(* apply_to names the specialization a list gives to a class template.     *)
(***************************************************************************)
EXTENDS Integers, Sequences, FiniteSets

\* Longest list the model draws.
MaxLen == 3

\* Longest pack of type arguments handed to a variadic operation.
MaxArgs == 3

\* Width of size_t in the model.  The library's size_t is 64 bits wide; the
\* model keeps the wrap-around arithmetic at a width the checker's integers hold.
SizeBits == 12

SizeMod == 2 ^ SizeBits

\* The types the lists are drawn from; NullType is meta::NullType.
NullType == "NullType"

TypeUniverse == {"int", "double", NullType}

RECURSIVE SeqsUpTo(_, _)
SeqsUpTo(S, n) ==
    IF n = 0 THEN {<<>>}
    ELSE LET shorter == SeqsUpTo(S, n - 1)
         IN  shorter \cup {Append(s, x) : s \in {t \in shorter : Len(t) = n - 1}, x \in S}

Lists == SeqsUpTo(TypeUniverse, MaxLen)

Packs == SeqsUpTo(TypeUniverse, MaxArgs)

\* Index arguments: every valid index, size, and one past size.
Indices == 0 .. (MaxLen + 1)

\* A unary predicate is modelled by the set of types for which it is true.
Predicates == SUBSET TypeUniverse

\* The class templates of the form template <typename...> class T.
Templates == {"std::variant", "std::tuple"}

\* T<Args...>, a type that is a specialization of such a class template.
Specialization(T, Args) == [name |-> T, parametrized |-> TRUE, args |-> Args]

\* A type that is no such specialization: a fundamental type, or a type whose
\* template takes a non-type argument.
Plain(T) == [name |-> T, parametrized |-> FALSE, args |-> <<>>]

\* The types make_type_list_from_t is handed.
Subjects ==
    {Specialization(T, Args) : T \in Templates, Args \in Lists}
        \cup {Plain(T) : T \in TypeUniverse \cup {"std::array<int, 3>"}}

VARIABLES
    list,       \* the TypeList the operation is evaluated on
    op,         \* the operation evaluated last, "none" before any
    idx1, idx2, \* its size_t template arguments
    targs,      \* its type template arguments, in order
    other,      \* its TypeList template argument
    pred,       \* its unary predicate template argument
    rejected,   \* TRUE iff the compiler rejected the evaluation
    outList,    \* the resulting TypeList, when the operation yields a list
    outNum,     \* the resulting size_t
    outBool,    \* the resulting bool
    outType,    \* the resulting type
    subject,    \* the type handed to make_type_list_from_t
    tmpl,       \* the class template handed to apply_to
    outInst     \* the type apply_to names

vars == <<list, op, idx1, idx2, targs, other, pred, rejected, outList, outNum, outBool, outType,
          subject, tmpl, outInst>>

(***************************************************************************)
(* namespace impl                                                          *)
(***************************************************************************)

\* static_cast<size_t>(-1)
invalid_index == (0 - 1) % SizeMod

\* TypeErasedUnaryPredicate<Condition>::met<Type>
met(Condition, Type) == Type \in Condition

\* contains::contains_one : (std::is_same_v<TypeToFind, Args> || ...)
contains_one(Args, TypeToFind) == \E i \in 1 .. Len(Args) : TypeToFind = Args[i]

\* contains::value : (contains_one<Typelist, TypesToFind>::value && ...)
contains_v(Typelist, TypesToFind) ==
    \A j \in 1 .. Len(TypesToFind) : contains_one(Typelist, TypesToFind[j])

size_v(Typelist) == Len(Typelist)

is_empty(Typelist) == size_v(Typelist) = 0

\* An add that puts the new types in front of the list.
add_t_inFront(Typelist, TypesToAdd) == TypesToAdd \o Typelist

\* add : Typelist<Args..., TypesToAdd...>
add_t(Typelist, TypesToAdd) == Typelist \o TypesToAdd

\* addIfAbsent::add_one : the test is made against the list addIfAbsent was
\* instantiated with (Typelist<Args...>), ListType is the list built so far.
add_one(Args, ListType, Type) ==
    IF ~ contains_v(Args, <<Type>>) THEN add_t(ListType, <<Type>>) ELSE ListType

RECURSIVE adder(_, _, _)
adder(Args, ListType, ListArgs) ==
    IF Len(ListArgs) = 1
    THEN add_one(Args, ListType, Head(ListArgs))
    ELSE adder(Args, add_one(Args, ListType, Head(ListArgs)), Tail(ListArgs))

\* adder is defined only for a pack of at least one type.
addIfAbsent_defined(TypesToAdd) == Len(TypesToAdd) >= 1

addIfAbsent_t(Typelist, TypesToAdd) == adder(Typelist, Typelist, TypesToAdd)

\* not_in::conditional_add
not_in_conditional_add(List2, NewList, Type) ==
    IF contains_v(List2, <<Type>>) THEN NewList ELSE add_t(NewList, <<Type>>)

RECURSIVE not_in_builder(_, _, _)
not_in_builder(List2, NewList, Ts) ==
    IF Len(Ts) = 1
    THEN not_in_conditional_add(List2, NewList, Head(Ts))
    ELSE not_in_builder(List2, not_in_conditional_add(List2, NewList, Head(Ts)), Tail(Ts))

\* not_in::builder is declared for any pack but defined only for a pack of
\* at least one type: not_in<List1<>, List2<...>>::type names an incomplete type.
not_in_defined(List1) == Len(List1) >= 1

not_in_t(List1, List2) == not_in_builder(List2, <<>>, List1)

\* Both not_in_t<List1, List2> and not_in_t<List2, List1> are instantiated.
same_ignoring_order_defined(List1, List2) == not_in_defined(List1) /\ not_in_defined(List2)

same_ignoring_order_v(List1, List2) ==
    is_empty(not_in_t(List1, List2)) /\ is_empty(not_in_t(List2, List1))

\* insert_at : static_assert (Index <= size_v<Typelist<Args...>>)
insert_at_assert(Args, Index) == Index <= size_v(Args)

\* An inserter that puts ToInsert behind the element at Index.
inserter_behind(Index, ToInsert, CurrentIndex, ListType, Type) ==
    IF CurrentIndex = Index
    THEN add_t(add_t(ListType, <<Type>>), <<ToInsert>>)
    ELSE add_t(ListType, <<Type>>)

inserter(Index, ToInsert, CurrentIndex, ListType, Type) ==
    IF CurrentIndex = Index
    THEN add_t(add_t(ListType, <<ToInsert>>), <<Type>>)
    ELSE add_t(ListType, <<Type>>)

RECURSIVE insert_at_rebuilder(_, _, _, _, _)
insert_at_rebuilder(Index, ToInsert, CurrentIndex, ListType, ListArgs) ==
    IF Len(ListArgs) = 1
    THEN inserter(Index, ToInsert, CurrentIndex, ListType, Head(ListArgs))
    ELSE insert_at_rebuilder(Index, ToInsert, (CurrentIndex + 1) % SizeMod,
                             inserter(Index, ToInsert, CurrentIndex, ListType, Head(ListArgs)),
                             Tail(ListArgs))

insert_at_t(Args, Index, ToInsert) == insert_at_rebuilder(Index, ToInsert, 0, <<>>, Args)

append_t(Typelist, ToAppend) == add_t(Typelist, <<ToAppend>>)

\* get : static_assert (Index <= size_v<Typelist<Args...>>)
get_assert(Args, Index) == Index <= size_v(Args)

\* get::getter : SearchIndex - 1 is size_t arithmetic; a pack of one type
\* that is not the one searched for yields meta::NullType.
RECURSIVE getter(_, _)
getter(SearchIndex, Ts) ==
    IF Len(Ts) = 1
    THEN IF SearchIndex = 0 THEN Head(Ts) ELSE NullType
    ELSE IF SearchIndex = 0 THEN Head(Ts)
         ELSE getter((SearchIndex - 1) % SizeMod, Tail(Ts))

\* A get that counts the positions from one.
get_t_fromOne(Args, Index) == getter((Index - 1) % SizeMod, Args)

get_t(Args, Index) == getter(Index, Args)

\* find : static_assert (contains_v<Typelist<Args...>, TypeToFind>)
find_assert(Args, TypeToFind) == contains_v(Args, <<TypeToFind>>)

RECURSIVE finder(_, _, _)
finder(TypeToFind, Index, Ts) ==
    IF Len(Ts) = 1
    THEN Index
    ELSE IF Head(Ts) = TypeToFind THEN Index
         ELSE finder(TypeToFind, (Index + 1) % SizeMod, Tail(Ts))

\* A find that numbers the positions from one.
find_v_fromOne(Args, TypeToFind) == finder(TypeToFind, 1, Args)

find_v(Args, TypeToFind) == finder(TypeToFind, 0, Args)

\* remove_at : static_assert (Index <= size_v<Typelist<Args...>>)
remove_at_assert(Args, Index) == Index <= size_v(Args)

\* A do_remove that drops every element from Index on.
do_remove_fromIndex(Index, CurrentIndex, ListType, Type) ==
    IF CurrentIndex >= Index THEN ListType ELSE add_t(ListType, <<Type>>)

do_remove(Index, CurrentIndex, ListType, Type) ==
    IF CurrentIndex = Index THEN ListType ELSE add_t(ListType, <<Type>>)

RECURSIVE remove_at_remover(_, _, _, _)
remove_at_remover(Index, CurrentIndex, ListType, ListArgs) ==
    IF Len(ListArgs) = 1
    THEN do_remove(Index, CurrentIndex, ListType, Head(ListArgs))
    ELSE remove_at_remover(Index, (CurrentIndex + 1) % SizeMod,
                           do_remove(Index, CurrentIndex, ListType, Head(ListArgs)),
                           Tail(ListArgs))

remove_at_t(Args, Index) == remove_at_remover(Index, 0, <<>>, Args)

\* replace_at : static_assert (Index <= size_v<Typelist<Args...>>)
replace_at_assert(Args, Index) == Index <= size_v(Args)

\* A do_replace that replaces every element from Index on.
replace_at_do_replace_fromIndex(Index, ReplaceWith, CurrentIndex, ListType, First) ==
    IF CurrentIndex >= Index THEN add_t(ListType, <<ReplaceWith>>) ELSE add_t(ListType, <<First>>)

replace_at_do_replace(Index, ReplaceWith, CurrentIndex, ListType, First) ==
    IF CurrentIndex = Index THEN add_t(ListType, <<ReplaceWith>>) ELSE add_t(ListType, <<First>>)

RECURSIVE replace_at_rebuilder(_, _, _, _, _)
replace_at_rebuilder(Index, ReplaceWith, CurrentIndex, ListType, ListArgs) ==
    IF Len(ListArgs) = 1
    THEN replace_at_do_replace(Index, ReplaceWith, CurrentIndex, ListType, Head(ListArgs))
    ELSE replace_at_rebuilder(Index, ReplaceWith, (CurrentIndex + 1) % SizeMod,
                              replace_at_do_replace(Index, ReplaceWith, CurrentIndex, ListType, Head(ListArgs)),
                              Tail(ListArgs))

replace_at_t(Args, Index, ReplaceWith) == replace_at_rebuilder(Index, ReplaceWith, 0, <<>>, Args)

\* swap_at : the three static_asserts; do_swap names get_t<OriginalList, Index1>
\* and get_t<OriginalList, Index2>, whose own static_assert is the same bound.
swap_at_assert(Args, Index1, Index2) ==
    /\ Index1 # Index2
    /\ Index1 <= size_v(Args)
    /\ Index2 <= size_v(Args)
    /\ get_assert(Args, Index1)
    /\ get_assert(Args, Index2)

\* A do_swap that puts the element of Index1 at both indices.
do_swap_oneWay(OriginalList, Index1, Index2, CurrentIndex, ListType, First) ==
    IF CurrentIndex = Index1
    THEN add_t(ListType, <<get_t(OriginalList, Index1)>>)
    ELSE IF CurrentIndex = Index2
         THEN add_t(ListType, <<get_t(OriginalList, Index1)>>)
         ELSE add_t(ListType, <<First>>)

do_swap(OriginalList, Index1, Index2, CurrentIndex, ListType, First) ==
    IF CurrentIndex = Index1
    THEN add_t(ListType, <<get_t(OriginalList, Index2)>>)
    ELSE IF CurrentIndex = Index2
         THEN add_t(ListType, <<get_t(OriginalList, Index1)>>)
         ELSE add_t(ListType, <<First>>)

RECURSIVE swap_at_rebuilder(_, _, _, _, _, _)
swap_at_rebuilder(OriginalList, Index1, Index2, CurrentIndex, ListType, ListArgs) ==
    IF Len(ListArgs) = 1
    THEN do_swap(OriginalList, Index1, Index2, CurrentIndex, ListType, Head(ListArgs))
    ELSE swap_at_rebuilder(OriginalList, Index1, Index2, (CurrentIndex + 1) % SizeMod,
                           do_swap(OriginalList, Index1, Index2, CurrentIndex, ListType, Head(ListArgs)),
                           Tail(ListArgs))

swap_at_t(Args, Index1, Index2) == swap_at_rebuilder(Args, Index1, Index2, 0, <<>>, Args)

\* count::counter : CurrentIndex runs from 0 to size_v inclusive, and
\* get_t at CurrentIndex is compared at every one of these indices.
RECURSIVE count_counter(_, _, _, _)
count_counter(Args, ToCount, Count, CurrentIndex) ==
    LET thisValue == IF ToCount = get_t(Args, CurrentIndex)
                     THEN (Count + 1) % SizeMod
                     ELSE Count
    IN  IF CurrentIndex = size_v(Args)
        THEN thisValue
        ELSE count_counter(Args, ToCount, thisValue, (CurrentIndex + 1) % SizeMod)

count_v(Args, ToCount) == count_counter(Args, ToCount, 0, 0)

\* count_if::counter : as count::counter, with the predicate as the test.
RECURSIVE count_if_counter(_, _, _, _)
count_if_counter(Args, UnaryPredicate, Count, CurrentIndex) ==
    LET thisValue == IF met(UnaryPredicate, get_t(Args, CurrentIndex))
                     THEN (Count + 1) % SizeMod
                     ELSE Count
    IN  IF CurrentIndex = size_v(Args)
        THEN thisValue
        ELSE count_if_counter(Args, UnaryPredicate, thisValue, (CurrentIndex + 1) % SizeMod)

count_if_v(Args, UnaryPredicate) == count_if_counter(Args, UnaryPredicate, 0, 0)

\* count_if_not : size_v - count_if_v in size_t arithmetic
count_if_not_v(Typelist, UnaryPredicate) ==
    (size_v(Typelist) - count_if_v(Typelist, UnaryPredicate)) % SizeMod

\* remove_duplicates::remover : the type at CurrentIndex is added unless the
\* list built so far holds it.
\* A remover that tests only the last type of the list built so far.
remove_duplicates_remover_lastOnly(Args, CurrentIndex, ListType) ==
    IF ListType # <<>> /\ ListType[Len(ListType)] = get_t(Args, CurrentIndex)
    THEN ListType
    ELSE add_t(ListType, <<get_t(Args, CurrentIndex)>>)

remove_duplicates_remover(Args, CurrentIndex, ListType) ==
    IF contains_v(ListType, <<get_t(Args, CurrentIndex)>>)
    THEN ListType
    ELSE add_t(ListType, <<get_t(Args, CurrentIndex)>>)

RECURSIVE remove_duplicates_rebuilder(_, _, _, _)
remove_duplicates_rebuilder(Args, CurrentIndex, ListType, Ts) ==
    IF Len(Ts) = 1
    THEN remove_duplicates_remover(Args, CurrentIndex, ListType)
    ELSE remove_duplicates_rebuilder(Args, (CurrentIndex + 1) % SizeMod,
                                     remove_duplicates_remover(Args, CurrentIndex, ListType),
                                     Tail(Ts))

remove_duplicates_t(Args) == remove_duplicates_rebuilder(Args, 0, <<>>, Args)

\* contains_duplicates : the size differs from the size without duplicates
contains_duplicates_v(Args) == size_v(Args) # size_v(remove_duplicates_t(Args))

prepend_t(Typelist, ToPrepend) == insert_at_t(Typelist, 0, ToPrepend)

get_first_t(Typelist) == get_t(Typelist, 0)

\* size_v - 1 is size_t arithmetic
get_last_t(Typelist) == get_t(Typelist, (size_v(Typelist) - 1) % SizeMod)

\* remove::isTypeAbsent : (! std::is_same_v<TypesToRemove, Type> && ...)
\* A test that holds as soon as one of the types to remove differs.
isTypeAbsent_anyDiffers(TypesToRemove, Type) ==
    \E j \in 1 .. Len(TypesToRemove) : TypesToRemove[j] # Type

isTypeAbsent(TypesToRemove, Type) ==
    \A j \in 1 .. Len(TypesToRemove) : TypesToRemove[j] # Type

remove_one(TypesToRemove, ListType, Type) ==
    IF isTypeAbsent(TypesToRemove, Type) THEN add_t(ListType, <<Type>>) ELSE ListType

RECURSIVE remove_remover(_, _, _)
remove_remover(TypesToRemove, ListType, ListArgs) ==
    IF Len(ListArgs) = 1
    THEN remove_one(TypesToRemove, ListType, Head(ListArgs))
    ELSE remove_remover(TypesToRemove, remove_one(TypesToRemove, ListType, Head(ListArgs)),
                        Tail(ListArgs))

remove_t(Args, TypesToRemove) == remove_remover(TypesToRemove, <<>>, Args)

\* remove_if::conditional_add
\* A conditional_add that keeps the types that meet the condition.
remove_if_conditional_add_keepsMet(UnaryPredicate, TypeList, Type) ==
    IF met(UnaryPredicate, Type) THEN add_t(TypeList, <<Type>>) ELSE TypeList

remove_if_conditional_add(UnaryPredicate, TypeList, Type) ==
    IF met(UnaryPredicate, Type) THEN TypeList ELSE add_t(TypeList, <<Type>>)

RECURSIVE remove_if_rebuilder(_, _, _)
remove_if_rebuilder(UnaryPredicate, TypeList, Ts) ==
    IF Len(Ts) = 1
    THEN remove_if_conditional_add(UnaryPredicate, TypeList, Head(Ts))
    ELSE remove_if_rebuilder(UnaryPredicate,
                             remove_if_conditional_add(UnaryPredicate, TypeList, Head(Ts)),
                             Tail(Ts))

remove_if_t(Args, UnaryPredicate) == remove_if_rebuilder(UnaryPredicate, <<>>, Args)

\* remove_if_not::conditional_add
remove_if_not_conditional_add(UnaryPredicate, TypeList, Type) ==
    IF ~ met(UnaryPredicate, Type) THEN TypeList ELSE add_t(TypeList, <<Type>>)

RECURSIVE remove_if_not_rebuilder(_, _, _)
remove_if_not_rebuilder(UnaryPredicate, TypeList, Ts) ==
    IF Len(Ts) = 1
    THEN remove_if_not_conditional_add(UnaryPredicate, TypeList, Head(Ts))
    ELSE remove_if_not_rebuilder(UnaryPredicate,
                                 remove_if_not_conditional_add(UnaryPredicate, TypeList, Head(Ts)),
                                 Tail(Ts))

remove_if_not_t(Args, UnaryPredicate) == remove_if_not_rebuilder(UnaryPredicate, <<>>, Args)

\* replace : static_assert (contains_v<Typelist<Args...>, ToReplace>)
replace_assert(Args, ToReplace) == contains_v(Args, <<ToReplace>>)

\* A do_replace with the branches of its conditional exchanged.
replace_do_replace_exchanged(ToReplace, TypeList, First, InPlaceType) ==
    add_t(TypeList, <<IF First = ToReplace THEN First ELSE InPlaceType>>)

replace_do_replace(ToReplace, TypeList, First, InPlaceType) ==
    add_t(TypeList, <<IF First = ToReplace THEN InPlaceType ELSE First>>)

RECURSIVE replace_replacer(_, _, _, _)
replace_replacer(ToReplace, TypeList, InPlaceType, Ts) ==
    IF Len(Ts) = 1
    THEN replace_do_replace(ToReplace, TypeList, Head(Ts), InPlaceType)
    ELSE replace_replacer(ToReplace,
                          replace_do_replace(ToReplace, TypeList, Head(Ts), InPlaceType),
                          InPlaceType, Tail(Ts))

replace_t(Args, ToReplace, ReplaceWith) == replace_replacer(ToReplace, <<>>, ReplaceWith, Args)

\* swap : its three static_asserts, those of the two find_v it names and
\* those of the swap_at_t it names.
swap_assert(Args, Type1, Type2) ==
    /\ Type1 # Type2
    /\ contains_v(Args, <<Type1>>)
    /\ contains_v(Args, <<Type2>>)
    /\ find_assert(Args, Type1)
    /\ find_assert(Args, Type2)
    /\ swap_at_assert(Args, find_v(Args, Type1), find_v(Args, Type2))

\* A swap that exchanges every occurrence of the two types.
swap_t_everyOccurrence(Args, Type1, Type2) ==
    [i \in 1 .. Len(Args) |->
        IF Args[i] = Type1 THEN Type2 ELSE IF Args[i] = Type2 THEN Type1 ELSE Args[i]]

swap_t(Args, Type1, Type2) == swap_at_t(Args, find_v(Args, Type1), find_v(Args, Type2))

\* An are_same that only compares the number of arguments.
are_same_v_sameSize(LHS, RHS) == Len(LHS) = Len(RHS)

\* are_same : the partial specialization <LHS<Args...>, RHS<Args...>> is chosen
\* iff both lists have the very same pack of arguments.
are_same_v(LHS, RHS) == LHS = RHS

\* A conditional_add that keeps a common type only once.
common_with_conditional_add_once(List2, NewList, Type) ==
    IF contains_v(List2, <<Type>>) /\ ~ contains_v(NewList, <<Type>>)
    THEN add_t(NewList, <<Type>>) ELSE NewList

\* common_with::conditional_add
common_with_conditional_add(List2, NewList, Type) ==
    IF contains_v(List2, <<Type>>) THEN add_t(NewList, <<Type>>) ELSE NewList

RECURSIVE common_with_builder(_, _, _)
common_with_builder(List2, NewList, Ts) ==
    IF Len(Ts) = 1
    THEN common_with_conditional_add(List2, NewList, Head(Ts))
    ELSE common_with_builder(List2, common_with_conditional_add(List2, NewList, Head(Ts)),
                             Tail(Ts))

\* builder<InternalTypeList<>, List1Types...>::type::makeTypelist<List1>
common_t(List1, List2) == common_with_builder(List2, <<>>, List1)

\* A reverse_impl that puts First behind the types already done.
RECURSIVE reverse_impl_behind(_, _)
reverse_impl_behind(T, done) ==
    IF T = <<>> THEN done ELSE reverse_impl_behind(Tail(T), done \o <<Head(T)>>)

\* reverse::reverse_impl<T<First, Rest...>, T<done...>> recurses on
\* <T<Rest...>, T<First, done...>>; reverse_impl<T<>, T<Types...>> is T<Types...>.
RECURSIVE reverse_impl(_, _)
reverse_impl(T, done) ==
    IF T = <<>> THEN done ELSE reverse_impl(Tail(T), <<Head(T)>> \o done)

\* reverse_impl<InternalTypeList<Args...>>::type::makeTypelist<Typelist>; the
\* second argument defaults to base<T>::type, the empty list.
reverse_t(Args) == reverse_impl(Args, <<>>)

add_from_t(List1, List2) == List1 \o List2

\* A make_type_list_from that always takes the primary template.
make_type_list_from_primary(T) == <<>>

\* make_type_list_from : the partial specialization <T<Args...>> yields
\* TypeList<Args...>, the primary template yields TypeList<>.
make_type_list_from(T) == IF T.parametrized THEN T.args ELSE <<>>

(***************************************************************************)
(* class TypeList<Types...> : the primary template, chosen by the compiler *)
(* for a list of at least one type.                                        *)
(***************************************************************************)

TypeList_add_if_absent(Types, TypesToAdd) == addIfAbsent_t(Types, TypesToAdd)

TypeList_insert_at(Types, Index, ToInsert) == insert_at_t(Types, Index, ToInsert)

TypeList_append(Types, ToAppend) == append_t(Types, ToAppend)

TypeList_at(Types, Index) == get_t(Types, Index)

TypeList_index_of(Types, Type) == find_v(Types, Type)

TypeList_num_of(Types, Type) == count_v(Types, Type)

TypeList_count_if(Types, UnaryPredicate) == count_if_v(Types, UnaryPredicate)

TypeList_count_if_not(Types, UnaryPredicate) == count_if_not_v(Types, UnaryPredicate)

TypeList_contains(Types, TypesToFind) == contains_v(Types, TypesToFind)

TypeList_remove_at(Types, Index) == remove_at_t(Types, Index)

TypeList_swap_at(Types, Index1, Index2) == swap_at_t(Types, Index1, Index2)

TypeList_replace_at(Types, Index, ReplaceWith) == replace_at_t(Types, Index, ReplaceWith)

TypeList_equal_ignore_order(Types, Other) == same_ignoring_order_v(Types, Other)

TypeList_remove_duplicates(Types) == remove_duplicates_t(Types)

TypeList_contains_duplicates(Types) == contains_duplicates_v(Types)

TypeList_prepend(Types, ToPrepend) == prepend_t(Types, ToPrepend)

TypeList_front(Types) == get_first_t(Types)

TypeList_back(Types) == get_last_t(Types)

TypeList_remove(Types, TypesToRemove) == remove_t(Types, TypesToRemove)

\* using remove_first = remove_at<0>
TypeList_remove_first(Types) == TypeList_remove_at(Types, 0)

\* using remove_last = remove_at<size - 1>
TypeList_remove_last(Types) == TypeList_remove_at(Types, (size_v(Types) - 1) % SizeMod)

TypeList_remove_if(Types, UnaryPredicate) == remove_if_t(Types, UnaryPredicate)

TypeList_remove_if_not(Types, UnaryPredicate) == remove_if_not_t(Types, UnaryPredicate)

TypeList_swap(Types, Type1, Type2) == swap_t(Types, Type1, Type2)

TypeList_replace(Types, Replace, With) == replace_t(Types, Replace, With)

TypeList_equal(Types, Other) == are_same_v(Types, Other)

TypeList_common_with(Types, Other) == common_t(Types, Other)

TypeList_not_in(Types, Other) == not_in_t(Types, Other)

TypeList_reverse(Types) == reverse_t(Types)

TypeList_add(Types, TypesToAdd) == add_t(Types, TypesToAdd)

TypeList_add_from(Types, Other) == add_from_t(Types, Other)

\* using apply_to = T<Types...>
TypeList_apply_to(Types, T) == Specialization(T, Types)

(***************************************************************************)
(* class TypeList<> : the explicit specialization for the empty list.      *)
(***************************************************************************)

Empty_equal_ignore_order(Other) == is_empty(Other)

Empty_contains(TypesToFind) == FALSE

Empty_num_of(Type) == 0

Empty_count_if(UnaryPredicate) == 0

Empty_count_if_not(UnaryPredicate) == 0

Empty_remove_duplicates == <<>>

\* typename TypeList<TypesToAdd...>::remove_duplicates : the pack chooses
\* between the primary template and the specialization for the empty list.
Empty_add_if_absent(TypesToAdd) ==
    IF TypesToAdd = <<>> THEN Empty_remove_duplicates
    ELSE TypeList_remove_duplicates(TypesToAdd)

Empty_insert_at(Index, ToInsert) == <<ToInsert>>

Empty_append(ToAppend) == <<ToAppend>>

Empty_swap_at(Index1, Index2) == <<>>

Empty_at(Index) == NullType

Empty_index_of(Type) == invalid_index

Empty_remove_at(Index) == <<>>

Empty_replace_at(Index, With) == <<With>>

Empty_contains_duplicates == FALSE

Empty_prepend(ToPrepend) == <<ToPrepend>>

Empty_front == NullType

Empty_back == NullType

Empty_remove(TypesToRemove) == <<>>

Empty_remove_first == <<>>

Empty_remove_last == <<>>

Empty_remove_if(UnaryPredicate) == <<>>

Empty_remove_if_not(UnaryPredicate) == <<>>

Empty_swap(Type1, Type2) == <<>>

\* A replace of the empty list that never looks at Replace.
Empty_replace_always(Replace, With) == <<With>>

\* using replace = std::conditional_t<std::is_same_v<Replace, NullType>,
\* TypeList<With>, type_id>
Empty_replace(Replace, With) == IF Replace = NullType THEN <<With>> ELSE <<>>

Empty_equal(Other) == is_empty(Other)

Empty_common_with(Other) == <<>>

Empty_not_in(Other) == <<>>

Empty_reverse == <<>>

\* using add = TypeList<TypesToAdd...>
Empty_add(TypesToAdd) == TypesToAdd

\* using add_from = Other
Empty_add_from(Other) == Other

\* using apply_to = T<>
Empty_apply_to(T) == Specialization(T, <<>>)

(***************************************************************************)
(* The state machine.                                                      *)
(***************************************************************************)

NoType == "none"

NoSubject == Plain(NoType)

NoTemplate == "none"

Init ==
    /\ list \in Lists
    /\ op = "none"
    /\ idx1 = 0
    /\ idx2 = 0
    /\ targs = <<>>
    /\ other = <<>>
    /\ pred = {}
    /\ rejected = FALSE
    /\ outList = <<>>
    /\ outNum = 0
    /\ outBool = FALSE
    /\ outType = NoType
    /\ subject = NoSubject
    /\ tmpl = NoTemplate
    /\ outInst = NoSubject

\* One evaluation: the arguments and the outcome are recorded; a rejected
\* evaluation has no result.
Evaluate(o, i1, i2, ts, oth, p, rej, l, n, b, t) ==
    /\ op = "none"
    /\ op' = o
    /\ idx1' = i1
    /\ idx2' = i2
    /\ targs' = ts
    /\ other' = oth
    /\ pred' = p
    /\ rejected' = rej
    /\ outList' = IF rej THEN <<>> ELSE l
    /\ outNum' = IF rej THEN 0 ELSE n
    /\ outBool' = IF rej THEN FALSE ELSE b
    /\ outType' = IF rej THEN NoType ELSE t
    /\ subject' = NoSubject
    /\ tmpl' = NoTemplate
    /\ outInst' = NoSubject
    /\ UNCHANGED list

insert_at ==
    \E Index \in Indices, ToInsert \in TypeUniverse :
        Evaluate("insert_at", Index, 0, <<ToInsert>>, <<>>, {},
                 list # <<>> /\ ~ insert_at_assert(list, Index),
                 IF list = <<>> THEN Empty_insert_at(Index, ToInsert)
                                ELSE TypeList_insert_at(list, Index, ToInsert),
                 0, FALSE, NoType)

append ==
    \E ToAppend \in TypeUniverse :
        Evaluate("append", 0, 0, <<ToAppend>>, <<>>, {}, FALSE,
                 IF list = <<>> THEN Empty_append(ToAppend)
                                ELSE TypeList_append(list, ToAppend),
                 0, FALSE, NoType)

add_if_absent ==
    \E TypesToAdd \in Packs :
        Evaluate("add_if_absent", 0, 0, TypesToAdd, <<>>, {},
                 list # <<>> /\ ~ addIfAbsent_defined(TypesToAdd),
                 IF list = <<>> THEN Empty_add_if_absent(TypesToAdd)
                 ELSE IF addIfAbsent_defined(TypesToAdd)
                      THEN TypeList_add_if_absent(list, TypesToAdd)
                      ELSE <<>>,
                 0, FALSE, NoType)

at ==
    \E Index \in Indices :
        Evaluate("at", Index, 0, <<>>, <<>>, {},
                 list # <<>> /\ ~ get_assert(list, Index),
                 <<>>, 0, FALSE,
                 IF list = <<>> THEN Empty_at(Index) ELSE TypeList_at(list, Index))

index_of ==
    \E Type \in TypeUniverse :
        Evaluate("index_of", 0, 0, <<Type>>, <<>>, {},
                 list # <<>> /\ ~ find_assert(list, Type),
                 <<>>,
                 IF list = <<>> THEN Empty_index_of(Type) ELSE TypeList_index_of(list, Type),
                 FALSE, NoType)

num_of ==
    \E Type \in TypeUniverse :
        Evaluate("num_of", 0, 0, <<Type>>, <<>>, {}, FALSE, <<>>,
                 IF list = <<>> THEN Empty_num_of(Type) ELSE TypeList_num_of(list, Type),
                 FALSE, NoType)

count_if ==
    \E UnaryPredicate \in Predicates :
        Evaluate("count_if", 0, 0, <<>>, <<>>, UnaryPredicate, FALSE, <<>>,
                 IF list = <<>> THEN Empty_count_if(UnaryPredicate)
                                ELSE TypeList_count_if(list, UnaryPredicate),
                 FALSE, NoType)

count_if_not ==
    \E UnaryPredicate \in Predicates :
        Evaluate("count_if_not", 0, 0, <<>>, <<>>, UnaryPredicate, FALSE, <<>>,
                 IF list = <<>> THEN Empty_count_if_not(UnaryPredicate)
                                ELSE TypeList_count_if_not(list, UnaryPredicate),
                 FALSE, NoType)

contains ==
    \E TypesToFind \in Packs :
        Evaluate("contains", 0, 0, TypesToFind, <<>>, {}, FALSE, <<>>, 0,
                 IF list = <<>> THEN Empty_contains(TypesToFind)
                                ELSE TypeList_contains(list, TypesToFind),
                 NoType)

remove_at ==
    \E Index \in Indices :
        Evaluate("remove_at", Index, 0, <<>>, <<>>, {},
                 list # <<>> /\ ~ remove_at_assert(list, Index),
                 IF list = <<>> THEN Empty_remove_at(Index) ELSE TypeList_remove_at(list, Index),
                 0, FALSE, NoType)

replace_at ==
    \E Index \in Indices, ReplaceWith \in TypeUniverse :
        Evaluate("replace_at", Index, 0, <<ReplaceWith>>, <<>>, {},
                 list # <<>> /\ ~ replace_at_assert(list, Index),
                 IF list = <<>> THEN Empty_replace_at(Index, ReplaceWith)
                                ELSE TypeList_replace_at(list, Index, ReplaceWith),
                 0, FALSE, NoType)

swap_at ==
    \E Index1 \in Indices, Index2 \in Indices :
        Evaluate("swap_at", Index1, Index2, <<>>, <<>>, {},
                 list # <<>> /\ ~ swap_at_assert(list, Index1, Index2),
                 IF list = <<>> THEN Empty_swap_at(Index1, Index2)
                                ELSE TypeList_swap_at(list, Index1, Index2),
                 0, FALSE, NoType)

equal_ignore_order ==
    \E Other \in Lists :
        Evaluate("equal_ignore_order", 0, 0, <<>>, Other, {},
                 list # <<>> /\ ~ same_ignoring_order_defined(list, Other),
                 <<>>, 0,
                 IF list = <<>> THEN Empty_equal_ignore_order(Other)
                 ELSE IF same_ignoring_order_defined(list, Other)
                      THEN TypeList_equal_ignore_order(list, Other)
                      ELSE FALSE,
                 NoType)

prepend ==
    \E ToPrepend \in TypeUniverse :
        Evaluate("prepend", 0, 0, <<ToPrepend>>, <<>>, {},
                 list # <<>> /\ ~ insert_at_assert(list, 0),
                 IF list = <<>> THEN Empty_prepend(ToPrepend)
                                ELSE TypeList_prepend(list, ToPrepend),
                 0, FALSE, NoType)

front ==
    Evaluate("front", 0, 0, <<>>, <<>>, {},
             list # <<>> /\ ~ get_assert(list, 0),
             <<>>, 0, FALSE,
             IF list = <<>> THEN Empty_front ELSE TypeList_front(list))

back ==
    Evaluate("back", 0, 0, <<>>, <<>>, {},
             list # <<>> /\ ~ get_assert(list, (size_v(list) - 1) % SizeMod),
             <<>>, 0, FALSE,
             IF list = <<>> THEN Empty_back ELSE TypeList_back(list))

remove ==
    \E TypesToRemove \in Packs :
        Evaluate("remove", 0, 0, TypesToRemove, <<>>, {}, FALSE,
                 IF list = <<>> THEN Empty_remove(TypesToRemove)
                                ELSE TypeList_remove(list, TypesToRemove),
                 0, FALSE, NoType)

remove_first ==
    Evaluate("remove_first", 0, 0, <<>>, <<>>, {},
             list # <<>> /\ ~ remove_at_assert(list, 0),
             IF list = <<>> THEN Empty_remove_first ELSE TypeList_remove_first(list),
             0, FALSE, NoType)

remove_last ==
    Evaluate("remove_last", 0, 0, <<>>, <<>>, {},
             list # <<>> /\ ~ remove_at_assert(list, (size_v(list) - 1) % SizeMod),
             IF list = <<>> THEN Empty_remove_last ELSE TypeList_remove_last(list),
             0, FALSE, NoType)

remove_if ==
    \E UnaryPredicate \in Predicates :
        Evaluate("remove_if", 0, 0, <<>>, <<>>, UnaryPredicate, FALSE,
                 IF list = <<>> THEN Empty_remove_if(UnaryPredicate)
                                ELSE TypeList_remove_if(list, UnaryPredicate),
                 0, FALSE, NoType)

remove_if_not ==
    \E UnaryPredicate \in Predicates :
        Evaluate("remove_if_not", 0, 0, <<>>, <<>>, UnaryPredicate, FALSE,
                 IF list = <<>> THEN Empty_remove_if_not(UnaryPredicate)
                                ELSE TypeList_remove_if_not(list, UnaryPredicate),
                 0, FALSE, NoType)

remove_duplicates ==
    Evaluate("remove_duplicates", 0, 0, <<>>, <<>>, {}, FALSE,
             IF list = <<>> THEN Empty_remove_duplicates ELSE TypeList_remove_duplicates(list),
             0, FALSE, NoType)

contains_duplicates ==
    Evaluate("contains_duplicates", 0, 0, <<>>, <<>>, {}, FALSE, <<>>, 0,
             IF list = <<>> THEN Empty_contains_duplicates
                            ELSE TypeList_contains_duplicates(list),
             NoType)

swap ==
    \E Type1 \in TypeUniverse, Type2 \in TypeUniverse :
        Evaluate("swap", 0, 0, <<Type1, Type2>>, <<>>, {},
                 list # <<>> /\ ~ swap_assert(list, Type1, Type2),
                 IF list = <<>> THEN Empty_swap(Type1, Type2)
                                ELSE TypeList_swap(list, Type1, Type2),
                 0, FALSE, NoType)

replace ==
    \E Replace \in TypeUniverse, With \in TypeUniverse :
        Evaluate("replace", 0, 0, <<Replace, With>>, <<>>, {},
                 list # <<>> /\ ~ replace_assert(list, Replace),
                 IF list = <<>> THEN Empty_replace(Replace, With)
                                ELSE TypeList_replace(list, Replace, With),
                 0, FALSE, NoType)

equal ==
    \E Other \in Lists :
        Evaluate("equal", 0, 0, <<>>, Other, {}, FALSE, <<>>, 0,
                 IF list = <<>> THEN Empty_equal(Other) ELSE TypeList_equal(list, Other),
                 NoType)

common_with ==
    \E Other \in Lists :
        Evaluate("common_with", 0, 0, <<>>, Other, {}, FALSE,
                 IF list = <<>> THEN Empty_common_with(Other)
                                ELSE TypeList_common_with(list, Other),
                 0, FALSE, NoType)

not_in ==
    \E Other \in Lists :
        Evaluate("not_in", 0, 0, <<>>, Other, {}, FALSE,
                 IF list = <<>> THEN Empty_not_in(Other)
                                ELSE TypeList_not_in(list, Other),
                 0, FALSE, NoType)

reverse ==
    Evaluate("reverse", 0, 0, <<>>, <<>>, {}, FALSE,
             IF list = <<>> THEN Empty_reverse ELSE TypeList_reverse(list),
             0, FALSE, NoType)

add ==
    \E TypesToAdd \in Packs :
        Evaluate("add", 0, 0, TypesToAdd, <<>>, {}, FALSE,
                 IF list = <<>> THEN Empty_add(TypesToAdd) ELSE TypeList_add(list, TypesToAdd),
                 0, FALSE, NoType)

add_from ==
    \E Other \in Lists :
        Evaluate("add_from", 0, 0, <<>>, Other, {}, FALSE,
                 IF list = <<>> THEN Empty_add_from(Other) ELSE TypeList_add_from(list, Other),
                 0, FALSE, NoType)

\* using CreatedList = make_type_list_from_t<Type>; it is no member of a list,
\* and the list it creates is the one the next operation is evaluated on.
make_type_list_from_t ==
    \E Type \in Subjects :
        /\ op = "none"
        /\ op' = "make_type_list_from_t"
        /\ subject' = Type
        /\ outList' = make_type_list_from(Type)
        /\ rejected' = FALSE
        /\ idx1' = 0
        /\ idx2' = 0
        /\ targs' = <<>>
        /\ other' = <<>>
        /\ pred' = {}
        /\ outNum' = 0
        /\ outBool' = FALSE
        /\ outType' = NoType
        /\ tmpl' = NoTemplate
        /\ outInst' = NoSubject
        /\ UNCHANGED list

apply_to ==
    \E T \in Templates :
        /\ op = "none"
        /\ op' = "apply_to"
        /\ tmpl' = T
        /\ outInst' = IF list = <<>> THEN Empty_apply_to(T) ELSE TypeList_apply_to(list, T)
        /\ rejected' = FALSE
        /\ idx1' = 0
        /\ idx2' = 0
        /\ targs' = <<>>
        /\ other' = <<>>
        /\ pred' = {}
        /\ outList' = <<>>
        /\ outNum' = 0
        /\ outBool' = FALSE
        /\ outType' = NoType
        /\ subject' = NoSubject
        /\ UNCHANGED list

\* The operations whose result is a TypeList.
ListOps ==
    {"insert_at", "append", "add_if_absent", "remove_at", "replace_at", "swap_at",
     "prepend", "remove", "remove_first", "remove_last", "remove_if", "remove_if_not",
     "remove_duplicates", "swap", "replace", "common_with", "not_in",
     "reverse", "add", "add_from", "make_type_list_from_t"}

\* using NewList = OldList::operation<...>; the next operation is evaluated
\* on the list the declaration names.
Alias ==
    /\ op # "none"
    /\ list' = IF op \in ListOps /\ ~ rejected /\ Len(outList) <= MaxLen THEN outList ELSE list
    /\ op' = "none"
    /\ idx1' = 0
    /\ idx2' = 0
    /\ targs' = <<>>
    /\ other' = <<>>
    /\ pred' = {}
    /\ rejected' = FALSE
    /\ outList' = <<>>
    /\ outNum' = 0
    /\ outBool' = FALSE
    /\ outType' = NoType
    /\ subject' = NoSubject
    /\ tmpl' = NoTemplate
    /\ outInst' = NoSubject

Next ==
    \/ insert_at
    \/ append
    \/ add_if_absent
    \/ at
    \/ index_of
    \/ num_of
    \/ count_if
    \/ count_if_not
    \/ contains
    \/ remove_at
    \/ replace_at
    \/ swap_at
    \/ equal_ignore_order
    \/ prepend
    \/ front
    \/ back
    \/ remove
    \/ remove_first
    \/ remove_last
    \/ remove_if
    \/ remove_if_not
    \/ remove_duplicates
    \/ contains_duplicates
    \/ swap
    \/ replace
    \/ equal
    \/ common_with
    \/ not_in
    \/ reverse
    \/ add
    \/ add_from
    \/ make_type_list_from_t
    \/ apply_to
    \/ Alias

Spec == Init /\ [][Next]_vars

(***************************************************************************)
(* Properties.                                                             *)
(***************************************************************************)

\* The positions (from 1) of L that hold T.
Positions(L, T) == {i \in 1 .. Len(L) : L[i] = T}

\* The positions of L whose type satisfies P.
Satisfying(L, P) == {i \in 1 .. Len(L) : L[i] \in P}

\* The set of the distinct types of L.
Elements(L) == {L[i] : i \in 1 .. Len(L)}

\* Ts appended to L one by one, each only if the list grown so far lacks it.
RECURSIVE AddEachIfAbsent(_, _)
AddEachIfAbsent(L, Ts) ==
    IF Ts = <<>> THEN L
    ELSE AddEachIfAbsent(IF Head(Ts) \in Elements(L) THEN L ELSE Append(L, Head(Ts)), Tail(Ts))

\* L::append<T> and L::count_if<P>, for any list L.
AppendOf(L, T) == IF L = <<>> THEN Empty_append(T) ELSE TypeList_append(L, T)

CountIfOf(L, P) == IF L = <<>> THEN Empty_count_if(P) ELSE TypeList_count_if(L, P)

AtOf(L, Index) == IF L = <<>> THEN Empty_at(Index) ELSE TypeList_at(L, Index)

\* C1: on a non-empty list, insert_at<size, T> is the same list as append<T>:
\* T is the last element, the original elements keep their positions and the
\* size grows by one.
C1_InsertAtSizeIsAppend ==
    (op = "insert_at" /\ list # <<>> /\ idx1 = Len(list)) =>
        /\ ~ rejected
        /\ outList = AppendOf(list, targs[1])
        /\ Len(outList) = Len(list) + 1
        /\ outList[Len(outList)] = targs[1]
        /\ \A i \in 1 .. Len(list) : outList[i] = list[i]

\* C2: num_of<T> is the number of positions of the list that hold T (0 when T
\* does not occur), for every type T, NullType included.
C2_NumOfCountsPositions ==
    op = "num_of" => (~ rejected /\ outNum = Cardinality(Positions(list, targs[1])))

\* C3: count_if<P> is the number of positions of the list whose element
\* satisfies P, whatever P is on NullType.
C3_CountIfCountsPositions ==
    op = "count_if" => (~ rejected /\ outNum = Cardinality(Satisfying(list, pred)))

\* C4: count_if_not<P> is the number of elements for which P is false: it lies
\* in 0..size and count_if<P> + count_if_not<P> = size.
C4_CountIfNotComplement ==
    op = "count_if_not" =>
        /\ ~ rejected
        /\ outNum = Len(list) - Cardinality(Satisfying(list, pred))
        /\ outNum \in 0 .. Len(list)
        /\ CountIfOf(list, pred) + outNum = Len(list)

\* C5: add_if_absent<T1..Tn> appends each Ti, in argument order, only if the
\* growing result does not hold it yet: a type repeated among the arguments is
\* appended once, a type of the list never.
C5_AddIfAbsentGrowing ==
    (op = "add_if_absent" /\ Len(targs) >= 1) =>
        (~ rejected /\ outList = AddEachIfAbsent(list, targs))

\* C6: on a non-empty list, at<Index> with Index >= size is rejected by the
\* compiler and yields no type.
C6_AtOutOfRangeRejected ==
    (op = "at" /\ list # <<>> /\ idx1 >= Len(list)) => (rejected /\ outType = NoType)

\* C7: on a non-empty list, remove_at, replace_at and swap_at are rejected when
\* an index is >= size, and swap_at also when its two indices are equal.
C7_IndexedMutationsRejected ==
    /\ (op \in {"remove_at", "replace_at"} /\ list # <<>> /\ idx1 >= Len(list)) => rejected
    /\ (op = "swap_at" /\ list # <<>>
            /\ (idx1 >= Len(list) \/ idx2 >= Len(list) \/ idx1 = idx2)) => rejected

\* C8: contains<T1..Tn> is true iff every Ti occurs in the list, for every list
\* (the empty one included); with no type argument it is true.
C8_ContainsAllOf ==
    op = "contains" =>
        (~ rejected /\ outBool = (\A j \in 1 .. Len(targs) : targs[j] \in Elements(list)))

\* C9: for every two lists (empty or not, with or without repeats),
\* equal_ignore_order evaluates to a boolean, true iff the two lists have the
\* same set of distinct elements.
C9_EqualIgnoreOrderIsSetEquality ==
    op = "equal_ignore_order" =>
        (~ rejected /\ outBool = (Elements(list) = Elements(other)))

\* C10: on a non-empty list that holds T, index_of<T> is the smallest index i
\* with at<i> = T; on a non-empty list that does not hold T it is rejected.
C10_IndexOfFirstOccurrence ==
    (op = "index_of" /\ list # <<>>) =>
        IF Positions(list, targs[1]) # {}
        THEN /\ ~ rejected
             /\ outNum + 1 \in Positions(list, targs[1])
             /\ \A i \in Positions(list, targs[1]) : outNum + 1 <= i
             /\ AtOf(list, outNum) = targs[1]
        ELSE rejected

\* index_of has found a type that occurs twice and not at the front.
C10_Witness ==
    /\ op = "index_of"
    /\ ~ rejected
    /\ Cardinality(Positions(list, targs[1])) >= 2
    /\ outNum >= 1

\* L::insert_at<Index, T>, L::remove_at<Index>, L::swap_at<I1, I2> for any list L.
InsertAtOf(L, Index, T) ==
    IF L = <<>> THEN Empty_insert_at(Index, T) ELSE TypeList_insert_at(L, Index, T)

RemoveAtOf(L, Index) == IF L = <<>> THEN Empty_remove_at(Index) ELSE TypeList_remove_at(L, Index)

SwapAtOf(L, Index1, Index2) ==
    IF L = <<>> THEN Empty_swap_at(Index1, Index2) ELSE TypeList_swap_at(L, Index1, Index2)

\* C11: on a non-empty list and for Index < size, insert_at<Index, T> has size
\* size + 1, holds T at Index, keeps the elements before Index and holds each
\* original element of position j >= Index at position j + 1; prepend<T> is
\* insert_at<0, T>.
C11_InsertAtShifts ==
    /\ (op = "insert_at" /\ list # <<>> /\ idx1 < Len(list)) =>
            /\ ~ rejected
            /\ Len(outList) = Len(list) + 1
            /\ outList[idx1 + 1] = targs[1]
            /\ \A j \in 1 .. idx1 : outList[j] = list[j]
            /\ \A j \in (idx1 + 1) .. Len(list) : outList[j + 1] = list[j]
    /\ (op = "prepend" /\ list # <<>>) =>
            /\ ~ rejected
            /\ outList = InsertAtOf(list, 0, targs[1])
            /\ outList = <<targs[1]>> \o list

\* A type was inserted strictly inside a list, between elements that differ from it.
C11_Witness ==
    /\ op = "insert_at"
    /\ ~ rejected
    /\ idx1 >= 1
    /\ idx1 < Len(list)
    /\ list[idx1] # targs[1]
    /\ list[idx1 + 1] # targs[1]
    /\ list[idx1] # list[idx1 + 1]

\* C12: on a non-empty list and for Index < size, at<Index> is the element at
\* position Index; front is at<0> and back is at<size - 1>.
C12_AtIsElement ==
    /\ (op = "at" /\ list # <<>> /\ idx1 < Len(list)) =>
            (~ rejected /\ outType = list[idx1 + 1])
    /\ (op = "front" /\ list # <<>>) =>
            (~ rejected /\ outType = list[1] /\ outType = AtOf(list, 0))
    /\ (op = "back" /\ list # <<>>) =>
            (~ rejected /\ outType = list[Len(list)] /\ outType = AtOf(list, Len(list) - 1))

\* at has read an element behind the front that differs from the front.
C12_Witness ==
    /\ op = "at"
    /\ ~ rejected
    /\ idx1 >= 1
    /\ idx1 < Len(list)
    /\ outType # list[1]

\* C13: on a non-empty list and for i < size, remove_at<i> has size size - 1 and
\* is the elements before i followed by the elements after i; remove_first is
\* remove_at<0> and remove_last is remove_at<size - 1>.
C13_RemoveAtSplices ==
    /\ (op = "remove_at" /\ list # <<>> /\ idx1 < Len(list)) =>
            /\ ~ rejected
            /\ Len(outList) = Len(list) - 1
            /\ outList = SubSeq(list, 1, idx1) \o SubSeq(list, idx1 + 2, Len(list))
    /\ (op = "remove_first" /\ list # <<>>) =>
            /\ ~ rejected
            /\ outList = RemoveAtOf(list, 0)
            /\ outList = Tail(list)
    /\ (op = "remove_last" /\ list # <<>>) =>
            /\ ~ rejected
            /\ outList = RemoveAtOf(list, Len(list) - 1)
            /\ outList = SubSeq(list, 1, Len(list) - 1)

\* An element with elements on both sides was removed.
C13_Witness ==
    /\ op = "remove_at"
    /\ ~ rejected
    /\ idx1 >= 1
    /\ idx1 + 1 < Len(list)
    /\ Len(outList) = 2

\* C14: on a non-empty list and for i < size, replace_at<i, W> has the size of
\* the list, holds W at position i and the original element at every other one.
C14_ReplaceAtOnlyIndex ==
    (op = "replace_at" /\ list # <<>> /\ idx1 < Len(list)) =>
        /\ ~ rejected
        /\ Len(outList) = Len(list)
        /\ outList[idx1 + 1] = targs[1]
        /\ \A j \in 1 .. Len(list) : j # idx1 + 1 => outList[j] = list[j]

\* An element was replaced by another type, in front of an element that differs
\* from the new type.
C14_Witness ==
    /\ op = "replace_at"
    /\ ~ rejected
    /\ idx1 + 1 < Len(list)
    /\ list[idx1 + 1] # targs[1]
    /\ list[idx1 + 2] # targs[1]

\* C15: on a non-empty list and for distinct I1, I2 < size, swap_at<I1, I2> holds
\* the element of I2 at I1, the element of I1 at I2 and the list's own element
\* at every other position (same size, same multiset of elements).
C15_SwapAtExchanges ==
    (op = "swap_at" /\ list # <<>> /\ idx1 # idx2 /\ idx1 < Len(list) /\ idx2 < Len(list)) =>
        /\ ~ rejected
        /\ Len(outList) = Len(list)
        /\ outList[idx1 + 1] = list[idx2 + 1]
        /\ outList[idx2 + 1] = list[idx1 + 1]
        /\ \A j \in 1 .. Len(list) : (j # idx1 + 1 /\ j # idx2 + 1) => outList[j] = list[j]
        /\ \A T \in TypeUniverse :
               Cardinality(Positions(outList, T)) = Cardinality(Positions(list, T))

\* Two different elements were exchanged.
C15_Witness ==
    /\ op = "swap_at"
    /\ ~ rejected
    /\ idx1 < Len(list)
    /\ idx2 < Len(list)
    /\ list[idx1 + 1] # list[idx2 + 1]
    /\ Len(list) = 3

\* The smallest index (from 0) at which L holds T; T occurs in L.
FirstIndex(L, T) == (CHOOSE i \in Positions(L, T) : \A k \in Positions(L, T) : i <= k) - 1

IndexOfOf(L, T) == IF L = <<>> THEN Empty_index_of(T) ELSE TypeList_index_of(L, T)

\* C16: on a non-empty list that holds the distinct types T1 and T2,
\* swap<T1, T2> is swap_at<index_of<T1>, index_of<T2>>: only the first
\* occurrence of each type is exchanged; swap is rejected when T1 = T2 or when
\* one of them is absent from the non-empty list.
C16_SwapFirstOccurrences ==
    (op = "swap" /\ list # <<>>) =>
        IF targs[1] # targs[2] /\ targs[1] \in Elements(list) /\ targs[2] \in Elements(list)
        THEN /\ ~ rejected
             /\ outList = SwapAtOf(list, IndexOfOf(list, targs[1]), IndexOfOf(list, targs[2]))
             /\ outList = [j \in 1 .. Len(list) |->
                              IF j = FirstIndex(list, targs[1]) + 1 THEN targs[2]
                              ELSE IF j = FirstIndex(list, targs[2]) + 1 THEN targs[1]
                              ELSE list[j]]
        ELSE rejected

\* Two types were swapped in a list that holds one of them twice.
C16_Witness ==
    /\ op = "swap"
    /\ ~ rejected
    /\ list # <<>>
    /\ Cardinality(Positions(list, targs[1])) = 2

\* L without the positions that hold a type of S, in the order of L.
RECURSIVE Without(_, _)
Without(L, S) ==
    IF L = <<>> THEN <<>>
    ELSE IF Head(L) \in S THEN Without(Tail(L), S) ELSE <<Head(L)>> \o Without(Tail(L), S)

\* C17: remove<T1..Tn> is the list with every occurrence of every Ti deleted and
\* the other elements in their order; a type that is absent is no error and
\* changes nothing, and removing every element yields the empty list.
C17_RemoveEveryOccurrence ==
    op = "remove" =>
        /\ ~ rejected
        /\ outList = Without(list, Elements(targs))
        /\ (Elements(targs) \cap Elements(list) = {}) => outList = list
        /\ (Elements(list) \subseteq Elements(targs)) => outList = <<>>

\* Two types were removed, one that occurs twice and one that is absent, and
\* an element was left.
C17_Witness ==
    /\ op = "remove"
    /\ ~ rejected
    /\ Len(targs) = 2
    /\ Cardinality(Positions(list, targs[1])) = 2
    /\ targs[2] \notin Elements(list)
    /\ Len(outList) = 1

RemoveIfOf(L, P) == IF L = <<>> THEN Empty_remove_if(P) ELSE TypeList_remove_if(L, P)

RemoveIfNotOf(L, P) == IF L = <<>> THEN Empty_remove_if_not(P) ELSE TypeList_remove_if_not(L, P)

\* C18: remove_if<P> is the subsequence of the elements that do not satisfy P,
\* remove_if_not<P> the subsequence of those that do; the sizes of the two sum
\* to the size of the list.
C18_RemoveIfPartition ==
    /\ op = "remove_if" =>
            /\ ~ rejected
            /\ outList = Without(list, pred)
            /\ Len(outList) + Len(RemoveIfNotOf(list, pred)) = Len(list)
    /\ op = "remove_if_not" =>
            /\ ~ rejected
            /\ outList = Without(list, TypeUniverse \ pred)
            /\ Len(outList) + Len(RemoveIfOf(list, pred)) = Len(list)

\* remove_if has removed some elements and kept two.
C18_Witness ==
    /\ op = "remove_if"
    /\ ~ rejected
    /\ Len(outList) = 2
    /\ Len(list) = 3

\* The first occurrence of each distinct type of L, in the order of L.
RECURSIVE FirstOccurrences(_, _)
FirstOccurrences(L, seen) ==
    IF L = <<>> THEN <<>>
    ELSE IF Head(L) \in seen THEN FirstOccurrences(Tail(L), seen)
         ELSE <<Head(L)>> \o FirstOccurrences(Tail(L), seen \cup {Head(L)})

ContainsDuplicatesOf(L) ==
    IF L = <<>> THEN Empty_contains_duplicates ELSE TypeList_contains_duplicates(L)

\* C19: remove_duplicates holds each distinct element of the list once, in the
\* order of the first occurrences; it is no longer than the list and holds no
\* duplicates; contains_duplicates is true iff a type occupies more than one
\* position of the list.
C19_RemoveDuplicatesFirstOccurrences ==
    /\ op = "remove_duplicates" =>
            /\ ~ rejected
            /\ outList = FirstOccurrences(list, {})
            /\ Len(outList) <= Len(list)
            /\ ~ ContainsDuplicatesOf(outList)
    /\ op = "contains_duplicates" =>
            /\ ~ rejected
            /\ outBool = (\E T \in TypeUniverse : Cardinality(Positions(list, T)) > 1)

\* A repeat that is not next to its first occurrence was dropped.
C19_Witness ==
    /\ op = "remove_duplicates"
    /\ ~ rejected
    /\ Len(list) = 3
    /\ list[1] = list[3]
    /\ list[1] # list[2]
    /\ Len(outList) = 2

C21_EqualIsElementwise ==
    (op = "equal") =>
        /\ ~ rejected
        /\ outBool <=> /\ Len(list) = Len(other)
                       /\ \A i \in 1 .. Len(list) : list[i] = other[i]

\* equal evaluated on two lists of one length that differ at an index.
C21_Witness ==
    /\ op = "equal"
    /\ Len(list) = Len(other)
    /\ Len(list) >= 2
    /\ Elements(list) = Elements(other)
    /\ list # other
    /\ ~ outBool

CommonWithOf(L, O) == IF L = <<>> THEN Empty_common_with(O) ELSE TypeList_common_with(L, O)

NotInOf(L, O) == IF L = <<>> THEN Empty_not_in(O) ELSE TypeList_not_in(L, O)

\* C22: common_with<Other> is the subsequence, in order and with repeats, of the
\* elements of the list that occur in Other, not_in<Other> the subsequence of
\* those that do not; neither is rejected and their sizes sum to the size of the
\* list.
C22_CommonWithNotInPartition ==
    /\ op = "common_with" =>
            /\ ~ rejected
            /\ outList = Without(list, TypeUniverse \ Elements(other))
            /\ Len(outList) + Len(NotInOf(list, other)) = Len(list)
    /\ op = "not_in" =>
            /\ ~ rejected
            /\ outList = Without(list, Elements(other))
            /\ Len(CommonWithOf(list, other)) + Len(outList) = Len(list)

\* common_with on a list that repeats a common type and holds a type Other lacks.
C22_Witness ==
    /\ op = "common_with"
    /\ Len(outList) = 2
    /\ outList[1] = outList[2]
    /\ Len(list) = 3
    /\ other # <<>>

ReverseOf(L) == IF L = <<>> THEN Empty_reverse ELSE TypeList_reverse(L)

\* C23: reverse is never rejected, has the size of the list and holds the
\* element of index i at index size - 1 - i; reversing the result gives the list
\* back, and the empty list reverses to itself.
C23_ReverseMirrors ==
    op = "reverse" =>
        /\ ~ rejected
        /\ Len(outList) = Len(list)
        /\ \A i \in 0 .. Len(list) - 1 : outList[(Len(list) - 1 - i) + 1] = list[i + 1]
        /\ ReverseOf(outList) = list
        /\ list = <<>> => outList = <<>>

\* reverse of a list of three elements that is not its own mirror image.
C23_Witness ==
    /\ op = "reverse"
    /\ Len(list) = 3
    /\ list[1] # list[3]
    /\ outList # list

BackOf(L) == IF L = <<>> THEN Empty_back ELSE TypeList_back(L)

\* C24: add<T1..Tn> is never rejected and is the list followed by T1..Tn in
\* order, so add<T> has size size + 1 and back T; add_from<Other> is the list
\* followed by the elements of Other in order.
C24_AddAppendsInOrder ==
    /\ op = "add" =>
            /\ ~ rejected
            /\ Len(outList) = Len(list) + Len(targs)
            /\ \A i \in 1 .. Len(list) : outList[i] = list[i]
            /\ \A j \in 1 .. Len(targs) : outList[Len(list) + j] = targs[j]
            /\ Len(targs) = 1 => BackOf(outList) = targs[1]
    /\ op = "add_from" =>
            /\ ~ rejected
            /\ Len(outList) = Len(list) + Len(other)
            /\ \A i \in 1 .. Len(list) : outList[i] = list[i]
            /\ \A j \in 1 .. Len(other) : outList[Len(list) + j] = other[j]

\* add of two distinct types, neither the first of the list, to a non-empty list.
C24_Witness ==
    /\ op = "add"
    /\ list # <<>>
    /\ Len(targs) = 2
    /\ targs[1] # targs[2]
    /\ list[1] # targs[1]
    /\ Len(outList) = Len(list) + 2

ApplyToOf(L, T) == IF L = <<>> THEN Empty_apply_to(T) ELSE TypeList_apply_to(L, T)

\* C25: for a type T<A1..An>, make_type_list_from_t is the list A1..An in order
\* and apply_to<T> of that list is T<A1..An> again; for a type that is no such
\* specialization it is the empty list; apply_to<T> of a list names T with the
\* elements of the list as its arguments, from which the list is extracted back.
C25_InteropRoundTrip ==
    /\ op = "make_type_list_from_t" =>
            /\ ~ rejected
            /\ IF subject.parametrized
               THEN /\ Len(outList) = Len(subject.args)
                    /\ \A i \in 1 .. Len(outList) : outList[i] = subject.args[i]
                    /\ ApplyToOf(outList, subject.name) = subject
               ELSE outList = <<>>
    /\ op = "apply_to" =>
            /\ ~ rejected
            /\ outInst.parametrized
            /\ outInst.name = tmpl
            /\ outInst.args = list
            /\ make_type_list_from(outInst) = list

\* A list extracted from a specialization with three arguments, not all equal.
C25_Witness ==
    /\ op = "make_type_list_from_t"
    /\ subject.parametrized
    /\ Len(subject.args) = 3
    /\ subject.args[1] # subject.args[3]
    /\ Len(outList) = 3

\* C26: on the empty list no operation is rejected, whatever its arguments:
\* at<i> is NullType; index_of<T> is the invalid index, which is no valid index
\* of any list; remove, remove_at, remove_if, swap_at, swap and reverse are the
\* empty list; insert_at<i, T> and replace_at<i, T> are the list of T alone;
\* replace<T, W> is the list of W alone when T is NullType, else the empty list.
C26_EmptyListNeverRejects ==
    (list = <<>> /\ op # "none") =>
        /\ ~ rejected
        /\ op = "at" => outType = NullType
        /\ op = "index_of" =>
                /\ outNum = invalid_index
                /\ \A L \in Lists : \A i \in 0 .. Len(L) - 1 : outNum # i
        /\ op \in {"remove", "remove_at", "remove_if", "swap_at", "swap", "reverse"} =>
                outList = <<>>
        /\ op \in {"insert_at", "replace_at"} => outList = <<targs[1]>>
        /\ op = "replace" => outList = IF targs[1] = NullType THEN <<targs[2]>> ELSE <<>>

\* replace<NullType, W> evaluated on the empty list.
C26_Witness ==
    /\ list = <<>>
    /\ op = "replace"
    /\ targs[1] = NullType
    /\ targs[2] # NullType
    /\ outList = <<targs[2]>>

ContainsOf(L, Ts) == IF L = <<>> THEN Empty_contains(Ts) ELSE TypeList_contains(L, Ts)

\* C27: for every list and every type T, NullType included, num_of<T> is
\* greater than zero iff contains<T> is true.
C27_NumOfAgreesWithContains ==
    op = "num_of" =>
        /\ ~ rejected
        /\ (outNum > 0) <=> ContainsOf(list, <<targs[1]>>)

\* C28: for every list and predicate P, the size of remove_if_not<P> is
\* count_if<P> and the size of remove_if<P> is count_if_not<P>.
C28_CountingAgreesWithFiltering ==
    /\ op = "count_if" =>
            /\ ~ rejected
            /\ size_v(RemoveIfNotOf(list, pred)) = outNum
    /\ op = "count_if_not" =>
            /\ ~ rejected
            /\ size_v(RemoveIfOf(list, pred)) = outNum

\* C29: on a non-empty list, every element of the result of an accepted
\* insert_at, remove_at, replace_at, swap_at or swap is an element of the list
\* or a type argument of the call; NullType is in the result only if it was in
\* the list or was handed over.
C29_NoInventedElements ==
    (/\ list # <<>>
     /\ op \in {"insert_at", "remove_at", "replace_at", "swap_at", "swap"}
     /\ ~ rejected) =>
        Elements(outList) \subseteq (Elements(list) \cup Elements(targs))

\* C30: for every list, empty or not, add<>, remove<> and add_if_absent<> with
\* no type argument are not rejected and are the list unchanged.
C30_EmptyPackIsNoOp ==
    (op \in {"add", "remove", "add_if_absent"} /\ targs = <<>>) =>
        /\ ~ rejected
        /\ outList = list

====
